---- MODULE Spec2Model ----
(***************************************************************************)
(* Model of the FastAPI JWT authentication demo (src/app/main.py) and of   *)
(* the seeding script (src/app/preload_memcache.py).                       *)
(*                                                                         *)
(* Time is counted in ticks, TicksPerSecond ticks to the second, so that   *)
(* the truncation of exp to whole seconds done by jwt.encode is visible.   *)
(* A token is modelled by its three segments: the header, the payload and  *)
(* the signature; the signature segment is the MAC bytes plus the low bits *)
(* of its last base64url character, which carry no byte of the MAC.        *)
(*                                                                         *)
(* Spec is the server behind its three routes, with the clock and the      *)
(* external writers of the store.  SpecCalls is the functions of main.py   *)
(* called directly, with every argument their signatures allow.  SpecWait  *)
(* is wait_for_memcached of the seeding script, step by step.              *)
(***************************************************************************)
EXTENDS Integers, Sequences, FiniteSets, TLC

VARIABLES now, store, issued, resp

vars == <<now, store, issued, resp>>

----------------------------------------------------------------------------
(* Bounds of the model *)

\* the clock is advanced tick by tick only this far past a whole minute
MaxFineTicks == 1
\* resolution of the clock: the fine ticks all fall within one second
TicksPerSecond == MaxFineTicks + 1
\* the clock is advanced by whole minutes up to this minute
MaxMinutes == 2
\* tokens kept in circulation
MaxTokens == 2
\* store records that differ at one time from what the seeding wrote
MaxEdits == 1

----------------------------------------------------------------------------
(* Security settings, main.py:30-32 *)

SECRET_KEY == "your-secret-key"
ALGORITHM == "HS256"
ACCESS_TOKEN_EXPIRE_MINUTES == 2

\* Python's None, and the absence of a value in a response
None == [type |-> "NoneType"]

\* timedelta(minutes=m), in ticks
timedelta_minutes(m) == m * 60 * TicksPerSecond

----------------------------------------------------------------------------
(* Password hashing: passlib's bcrypt context.  A hash is a one-way image  *)
(* of the password; verify succeeds exactly on a hash of the same plain.   *)

hash_pw(pw) == [scheme |-> "bcrypt", of |-> pw]

verify_password(plain, hashed) == hashed = hash_pw(plain)

----------------------------------------------------------------------------
(* The seeded credential store, preload_memcache.py:12-29 and 47-48 *)

fake_users_db ==
  [u \in {"john", "jane"} |->
     IF u = "john"
     THEN [username |-> "john", full_name |-> "John Doe",
           email |-> "johndoe@example.com",
           hashed_password |-> hash_pw("johnpword"),
           admin |-> TRUE, disabled |-> FALSE]
     ELSE [username |-> "jane", full_name |-> "Jane Doe",
           email |-> "janedoe@example.com",
           hashed_password |-> hash_pw("janepword"),
           admin |-> FALSE, disabled |-> FALSE]]

\* the memcached key of a user, f"user:{username}"
user_key(username) == <<"user:", username>>

\* the store after the seeding loop: one entry per demo user
seeded_store ==
  [k \in {user_key(u) : u \in DOMAIN fake_users_db} |-> fake_users_db[k[2]]]

----------------------------------------------------------------------------
(* Tokens: jwt.encode and jwt.decode of PyJWT with HS256 *)

\* the MAC over the signing input (the header and payload segments)
hmac_sha256(key, header, payload) ==
  [key |-> key, header |-> header, payload |-> payload]

\* variant: exp rounded up to the next whole second
jwt_encode_ceil(to_encode, key, algorithm) ==
  LET header == [alg |-> algorithm, typ |-> "JWT"]
      payload == [k \in DOMAIN to_encode |->
                    IF k = "exp"
                    THEN (to_encode[k] + TicksPerSecond - 1) \div TicksPerSecond
                    ELSE to_encode[k]]
  IN [segs |-> 3, header |-> header, payload |-> payload,
      mac |-> hmac_sha256(key, header, payload), canonical |-> TRUE]

\* jwt.encode: a datetime exp becomes whole seconds since the epoch
\* (timegm of its time tuple, which drops the fraction of the second);
\* segs counts the dot-separated segments; canonical says that the unused
\* low bits of the last character of the signature segment are zero, as the
\* encoder writes them
jwt_encode(to_encode, key, algorithm) ==
  LET header == [alg |-> algorithm, typ |-> "JWT"]
      payload == [k \in DOMAIN to_encode |->
                    IF k = "exp" THEN to_encode[k] \div TicksPerSecond
                    ELSE to_encode[k]]
  IN [segs |-> 3, header |-> header, payload |-> payload,
      mac |-> hmac_sha256(key, header, payload), canonical |-> TRUE]

\* variant: a token is still good at the instant of its exp
jwt_decode_late(token, key, algorithms, clk) ==
  IF token.segs < 3
  THEN [err |-> "DecodeError", payload |-> None]
  ELSE IF token.header.alg \notin algorithms
  THEN [err |-> "InvalidAlgorithmError", payload |-> None]
  ELSE IF token.mac # hmac_sha256(key, token.header, token.payload)
  THEN [err |-> "InvalidSignatureError", payload |-> None]
  ELSE IF "exp" \in DOMAIN token.payload
          /\ token.payload.exp * TicksPerSecond < clk
  THEN [err |-> "ExpiredSignatureError", payload |-> None]
  ELSE [err |-> "", payload |-> token.payload]

\* variant: the signature is not compared
jwt_decode_unverified(token, key, algorithms, clk) ==
  IF token.segs < 3
  THEN [err |-> "DecodeError", payload |-> None]
  ELSE IF token.header.alg \notin algorithms
  THEN [err |-> "InvalidAlgorithmError", payload |-> None]
  ELSE IF "exp" \in DOMAIN token.payload
          /\ token.payload.exp * TicksPerSecond <= clk
  THEN [err |-> "ExpiredSignatureError", payload |-> None]
  ELSE [err |-> "", payload |-> token.payload]

\* jwt.decode(token, key, algorithms=[...]) at clock clk: the segments are
\* split and base64url-decoded (the unused bits are discarded), then the
\* algorithm is checked, then the signature, then the exp claim
jwt_decode(token, key, algorithms, clk) ==
  IF token.segs < 3
  THEN [err |-> "DecodeError", payload |-> None]
  ELSE IF token.header.alg \notin algorithms
  THEN [err |-> "InvalidAlgorithmError", payload |-> None]
  ELSE IF token.mac # hmac_sha256(key, token.header, token.payload)
  THEN [err |-> "InvalidSignatureError", payload |-> None]
  ELSE IF "exp" \in DOMAIN token.payload
          /\ token.payload.exp * TicksPerSecond <= clk
  THEN [err |-> "ExpiredSignatureError", payload |-> None]
  ELSE [err |-> "", payload |-> token.payload]

\* variant: the duration is subtracted
create_access_token_past(data, expires_delta, clk) ==
  LET delta == IF expires_delta = {} \/ expires_delta = {0}
               THEN timedelta_minutes(ACCESS_TOKEN_EXPIRE_MINUTES)
               ELSE CHOOSE d \in expires_delta : TRUE
      expire == IF clk >= delta THEN clk - delta ELSE 0
      to_encode == [k \in DOMAIN data \cup {"exp"} |->
                      IF k = "exp" THEN expire ELSE data[k]]
  IN jwt_encode(to_encode, SECRET_KEY, ALGORITHM)

\* variant: the clock is read once, when the module is loaded
create_access_token_fixed(data, expires_delta, clk) ==
  LET delta == IF expires_delta = {} \/ expires_delta = {0}
               THEN timedelta_minutes(ACCESS_TOKEN_EXPIRE_MINUTES)
               ELSE CHOOSE d \in expires_delta : TRUE
      expire == delta
      to_encode == [k \in DOMAIN data \cup {"exp"} |->
                      IF k = "exp" THEN expire ELSE data[k]]
  IN jwt_encode(to_encode, SECRET_KEY, ALGORITHM)

\* expires_delta is an option: {} is None, {d} is a timedelta of d ticks.
\* "expires_delta or default" takes the default for None and for a zero
\* timedelta, both falsy in Python.
create_access_token(data, expires_delta, clk) ==
  LET delta == IF expires_delta = {} \/ expires_delta = {0}
               THEN timedelta_minutes(ACCESS_TOKEN_EXPIRE_MINUTES)
               ELSE CHOOSE d \in expires_delta : TRUE
      expire == clk + delta
      to_encode == [k \in DOMAIN data \cup {"exp"} |->
                      IF k = "exp" THEN expire ELSE data[k]]
  IN jwt_encode(to_encode, SECRET_KEY, ALGORITHM)

----------------------------------------------------------------------------
(* Store lookup.  avail says whether memcached answers during the call:    *)
(* python-memcached marks an unreachable server dead and returns None from *)
(* get, the same value as for a missing key.                               *)

\* variant: the records are read from the seeding data, not from the store
get_user_seeded(username, avail, st) ==
  IF avail /\ user_key(username) \in DOMAIN seeded_store
  THEN seeded_store[user_key(username)]
  ELSE None

get_user(username, avail, st) ==
  IF avail /\ user_key(username) \in DOMAIN st
  THEN st[user_key(username)]
  ELSE None

\* user.get(field): the value as an option, {} when the key is missing
dict_get(d, field) == IF field \in DOMAIN d THEN {d[field]} ELSE {}

----------------------------------------------------------------------------
(* get_current_user, main.py:102-136.  The HTTPException raised inside the *)
(* try block is not a PyJWTError, so it passes both handlers unchanged.    *)

HTTPException(status_code, detail) ==
  [status |-> status_code, detail |-> detail, user |-> None]

\* variant: the result of the lookup is returned unchecked
get_current_user_unchecked(token, avail, st, clk) ==
  LET decoded == jwt_decode(token, SECRET_KEY, {ALGORITHM}, clk)
      payload == decoded.payload
      username == dict_get(payload, "sub")
      user == get_user(CHOOSE u \in username : TRUE, avail, st)
  IN IF decoded.err = "ExpiredSignatureError"
     THEN HTTPException(401, "Token expired")
     ELSE IF decoded.err # ""
     THEN HTTPException(401, "Invalid token")
     ELSE IF username = {} \/ username = {""}
     THEN HTTPException(401, "Invalid token payload")
     ELSE [status |-> 200, detail |-> "", user |-> user]

\* variant: a disabled user is turned away
get_current_user_active(token, avail, st, clk) ==
  LET decoded == jwt_decode(token, SECRET_KEY, {ALGORITHM}, clk)
      payload == decoded.payload
      username == dict_get(payload, "sub")
      user == get_user(CHOOSE u \in username : TRUE, avail, st)
  IN IF decoded.err = "ExpiredSignatureError"
     THEN HTTPException(401, "Token expired")
     ELSE IF decoded.err # ""
     THEN HTTPException(401, "Invalid token")
     ELSE IF username = {} \/ username = {""}
     THEN HTTPException(401, "Invalid token payload")
     ELSE IF user = None
     THEN HTTPException(404, "User not found")
     ELSE IF dict_get(user, "disabled") = {TRUE}
     THEN HTTPException(400, "Inactive user")
     ELSE [status |-> 200, detail |-> "", user |-> user]

\* variant: the last handler catches every exception, the HTTPException
\* raised inside the try block included
get_current_user_broad(token, avail, st, clk) ==
  LET decoded == jwt_decode(token, SECRET_KEY, {ALGORITHM}, clk)
      payload == decoded.payload
      username == dict_get(payload, "sub")
      user == get_user(CHOOSE u \in username : TRUE, avail, st)
  IN IF decoded.err = "ExpiredSignatureError"
     THEN HTTPException(401, "Token expired")
     ELSE IF decoded.err # ""
     THEN HTTPException(401, "Invalid token")
     ELSE IF username = {} \/ username = {""}
     THEN HTTPException(401, "Invalid token")
     ELSE IF user = None
     THEN HTTPException(401, "Invalid token")
     ELSE [status |-> 200, detail |-> "", user |-> user]

\* variant: the handler of PyJWTError stands before the one of its subclass
\* ExpiredSignatureError and takes the expired tokens too
get_current_user_swapped(token, avail, st, clk) ==
  LET decoded == jwt_decode(token, SECRET_KEY, {ALGORITHM}, clk)
      payload == decoded.payload
      username == dict_get(payload, "sub")
      user == get_user(CHOOSE u \in username : TRUE, avail, st)
  IN IF decoded.err # ""
     THEN HTTPException(401, "Invalid token")
     ELSE IF username = {} \/ username = {""}
     THEN HTTPException(401, "Invalid token payload")
     ELSE IF user = None
     THEN HTTPException(404, "User not found")
     ELSE [status |-> 200, detail |-> "", user |-> user]

get_current_user(token, avail, st, clk) ==
  LET decoded == jwt_decode(token, SECRET_KEY, {ALGORITHM}, clk)
      payload == decoded.payload
      username == dict_get(payload, "sub")
      user == get_user(CHOOSE u \in username : TRUE, avail, st)
  IN IF decoded.err = "ExpiredSignatureError"
     THEN HTTPException(401, "Token expired")
     ELSE IF decoded.err # ""
     THEN HTTPException(401, "Invalid token")
     ELSE IF username = {} \/ username = {""}
     THEN HTTPException(401, "Invalid token payload")
     ELSE IF user = None
     THEN HTTPException(404, "User not found")
     ELSE [status |-> 200, detail |-> "", user |-> user]

----------------------------------------------------------------------------
(* Routes, main.py:140-195.  A response carries the HTTP status, the       *)
(* detail of the HTTPException (empty on success), the principal the       *)
(* dependency resolved, and the token of a successful login.               *)

\* passlib raises UnknownHashError on a string it cannot identify, such as
\* the "" that stands in for a missing hashed_password
EmptyHash == [scheme |-> "", of |-> ""]

\* variant: an unknown username is reported as such
login_revealing(form, avail, st, clk) ==
  LET user == get_user(form.username, avail, st)
      stored == dict_get(user, "hashed_password")
      hashed == IF stored = {} THEN EmptyHash ELSE CHOOSE h \in stored : TRUE
  IN IF user = None
     THEN [status |-> 404, detail |-> "User not found",
           user |-> None, access_token |-> None]
     ELSE IF hashed.scheme # "bcrypt"
     THEN [status |-> 500, detail |-> "Internal Server Error",
           user |-> None, access_token |-> None]
     ELSE IF ~verify_password(form.password, hashed)
     THEN [status |-> 401, detail |-> "Incorrect username or password",
           user |-> None, access_token |-> None]
     ELSE [status |-> 200, detail |-> "", user |-> None,
           access_token |->
             create_access_token([sub |-> user.username], {}, clk)]

\* variant: the password is not verified
login_unverified(form, avail, st, clk) ==
  LET user == get_user(form.username, avail, st)
  IN IF user = None
     THEN [status |-> 401, detail |-> "Incorrect username or password",
           user |-> None, access_token |-> None]
     ELSE [status |-> 200, detail |-> "", user |-> None,
           access_token |->
             create_access_token([sub |-> user.username], {}, clk)]

login(form, avail, st, clk) ==
  LET user == get_user(form.username, avail, st)
      stored == dict_get(user, "hashed_password")
      hashed == IF stored = {} THEN EmptyHash ELSE CHOOSE h \in stored : TRUE
  IN IF user = None
     THEN [status |-> 401, detail |-> "Incorrect username or password",
           user |-> None, access_token |-> None]
     ELSE IF hashed.scheme # "bcrypt"
     THEN [status |-> 500, detail |-> "Internal Server Error",
           user |-> None, access_token |-> None]
     ELSE IF ~verify_password(form.password, hashed)
     THEN [status |-> 401, detail |-> "Incorrect username or password",
           user |-> None, access_token |-> None]
     ELSE [status |-> 200, detail |-> "", user |-> None,
           access_token |->
             create_access_token([sub |-> user.username], {}, clk)]

protected_route(token, avail, st, clk) ==
  LET dep == get_current_user(token, avail, st, clk)
  IN [status |-> dep.status, detail |-> dep.detail, user |-> dep.user,
      access_token |-> None]

\* variant: only an admin field that is present and false denies
protected_admin_route_lenient(token, avail, st, clk) ==
  LET dep == get_current_user(token, avail, st, clk)
  IN IF dep.status # 200
     THEN [status |-> dep.status, detail |-> dep.detail, user |-> dep.user,
           access_token |-> None]
     ELSE IF dict_get(dep.user, "admin") = {FALSE}
     THEN [status |-> 403, detail |-> "Admin access required",
           user |-> dep.user, access_token |-> None]
     ELSE [status |-> 200, detail |-> "", user |-> dep.user,
           access_token |-> None]

\* "not user.get('admin')": a missing or false admin field denies
protected_admin_route(token, avail, st, clk) ==
  LET dep == get_current_user(token, avail, st, clk)
  IN IF dep.status # 200
     THEN [status |-> dep.status, detail |-> dep.detail, user |-> dep.user,
           access_token |-> None]
     ELSE IF dict_get(dep.user, "admin") # {TRUE}
     THEN [status |-> 403, detail |-> "Admin access required",
           user |-> dep.user, access_token |-> None]
     ELSE [status |-> 200, detail |-> "", user |-> dep.user,
           access_token |-> None]

----------------------------------------------------------------------------
(* What a caller can present: the tokens in circulation, the same tokens   *)
(* with one character of a segment changed or with their tail cut off, and *)
(* tokens signed under a key that is not the server's.                     *)

OtherAlgorithms == {"none"}
Usernames == {"john", "jane", "mallory"}
Passwords == {"johnpword", "janepword"}

\* one character changed in the header, in the payload, in the bytes of the
\* signature, or in the unused bits of the signature's last character
Mutations(t) ==
  {[t EXCEPT !.header.alg = a] : a \in OtherAlgorithms}
  \cup {[t EXCEPT !.payload.sub = u] :
          u \in DOMAIN fake_users_db \ {t.payload.sub}}
  \cup {[t EXCEPT !.payload = [k \in DOMAIN t.payload \ {"sub"} |-> t.payload[k]]]}
  \cup {[t EXCEPT !.payload.exp = t.payload.exp + 60]}
  \cup {[t EXCEPT !.mac.key = "changed-bytes"]}
  \cup {[t EXCEPT !.canonical = ~t.canonical]}

\* the tail cut off inside the signature, or before it
Truncations(t) ==
  {[t EXCEPT !.mac.key = "cut-bytes"], [t EXCEPT !.segs = 2]}

\* tokens made without the server's key
Forged(clk) ==
  {jwt_encode([sub |-> u, exp |-> clk + timedelta_minutes(1)],
              "attacker-key", ALGORITHM) : u \in {"john"}}

Circulating == {e.token : e \in issued}

Presentable ==
  Circulating
  \cup UNION {Mutations(t) \cup Truncations(t) : t \in Circulating}
  \cup Forged(now)

\* the requests of the model: altered and forged tokens and an outage of the
\* store are tried on the plain protected route, the outage with the tokens
\* in circulation and with a right password
ProtectedRequests ==
  (Presentable \X {TRUE}) \cup (Circulating \X {FALSE})

AdminRequests == Circulating \X {TRUE}

LoginRequests ==
  (Usernames \X Passwords \X {TRUE})
  \cup {<<u, p, FALSE>> : u \in {"john"}, p \in {"johnpword"}}

\* the records of st that the seeding did not write as they are
Edited(st) ==
  {k \in DOMAIN seeded_store : k \notin DOMAIN st \/ st[k] # seeded_store[k]}

----------------------------------------------------------------------------
(* State.  now is the wall clock in ticks; store is the memcached content  *)
(* under the user keys; issued holds the tokens handed out by login, each  *)
(* with the form of its login (the server keeps no such record, the        *)
(* callers do); resp is the last request and its response, kept for as     *)
(* long as the clock and the store stand as the handler read them.  After  *)
(* a write of an admin flag resp holds the record that was replaced.       *)

NoRequest ==
  [op |-> "none", form |-> None, token |-> None, avail |-> TRUE,
   status |-> 0, detail |-> "", user |-> None, access_token |-> None]

\* what is left of the last response once the clock or the store moves on
Written(old) == [NoRequest EXCEPT !.op = "write", !.user = old]

Init ==
  /\ now \in 0..MaxFineTicks
  /\ store = seeded_store
  /\ issued = {}
  /\ resp = NoRequest

\* variant: a successful login notes its time in the user's record
Login_recording(username, password, avail) ==
  LET form == [username |-> username, password |-> password]
      r == login(form, avail, store, now)
      entry == [token |-> r.access_token, form |-> form]
      old == store[user_key(username)]
  IN /\ r.status = 200 => (entry \in issued \/ Cardinality(issued) < MaxTokens)
     /\ resp' = [op |-> "login", form |-> form, token |-> None,
                 avail |-> avail, status |-> r.status, detail |-> r.detail,
                 user |-> r.user, access_token |-> r.access_token]
     /\ issued' = IF r.status = 200 THEN issued \cup {entry} ELSE issued
     /\ store' = IF r.status = 200
                 THEN [store EXCEPT
                         ![user_key(username)] =
                           [f \in DOMAIN old \cup {"last_login"} |->
                              IF f = "last_login" THEN now ELSE old[f]]]
                 ELSE store
     /\ UNCHANGED now

\* POST /token
Login(username, password, avail) ==
  LET form == [username |-> username, password |-> password]
      r == login(form, avail, store, now)
      entry == [token |-> r.access_token, form |-> form]
  IN /\ r.status = 200 => (entry \in issued \/ Cardinality(issued) < MaxTokens)
     /\ resp' = [op |-> "login", form |-> form, token |-> None,
                 avail |-> avail, status |-> r.status, detail |-> r.detail,
                 user |-> r.user, access_token |-> r.access_token]
     /\ issued' = IF r.status = 200 THEN issued \cup {entry} ELSE issued
     /\ UNCHANGED <<now, store>>

\* variant: only the newest token of a user is honoured
Protected_single(token, avail) ==
  LET r == protected_route(token, avail, store, now)
      stale == \E e \in issued :
                 /\ "sub" \in DOMAIN token.payload
                 /\ e.token.payload.sub = token.payload.sub
                 /\ e.token.payload.exp > token.payload.exp
  IN /\ resp' = IF stale
                THEN [op |-> "protected", form |-> None, token |-> token,
                      avail |-> avail, status |-> 401,
                      detail |-> "Invalid token", user |-> None,
                      access_token |-> None]
                ELSE [op |-> "protected", form |-> None, token |-> token,
                      avail |-> avail, status |-> r.status,
                      detail |-> r.detail, user |-> r.user,
                      access_token |-> r.access_token]
     /\ UNCHANGED <<now, store, issued>>

\* GET /protected
Protected(token, avail) ==
  LET r == protected_route(token, avail, store, now)
  IN /\ resp' = [op |-> "protected", form |-> None, token |-> token,
                 avail |-> avail, status |-> r.status, detail |-> r.detail,
                 user |-> r.user, access_token |-> r.access_token]
     /\ UNCHANGED <<now, store, issued>>

\* GET /protected2
ProtectedAdmin(token, avail) ==
  LET r == protected_admin_route(token, avail, store, now)
  IN /\ resp' = [op |-> "protected2", form |-> None, token |-> token,
                 avail |-> avail, status |-> r.status, detail |-> r.detail,
                 user |-> r.user, access_token |-> r.access_token]
     /\ UNCHANGED <<now, store, issued>>

\* time passes, by one tick shortly after a whole minute
TickFine ==
  /\ now % timedelta_minutes(1) < MaxFineTicks
  /\ now' = now + 1
  /\ resp' = NoRequest
  /\ UNCHANGED <<store, issued>>

\* time passes, by a minute
TickMinute ==
  /\ now \div timedelta_minutes(1) < MaxMinutes
  /\ now' = now + timedelta_minutes(1)
  /\ resp' = NoRequest
  /\ UNCHANGED <<store, issued>>

\* an external writer removes a user record (deletion or eviction)
Evict(username) ==
  /\ user_key(username) \in DOMAIN store
  /\ store' = [k \in DOMAIN store \ {user_key(username)} |-> store[k]]
  /\ Cardinality(Edited(store')) <= MaxEdits
  /\ resp' = NoRequest
  /\ UNCHANGED <<now, issued>>

\* an external writer sets, clears or drops the admin flag of a record
WriteAdmin(username, admin) ==
  LET k == user_key(username)
      old == store[k]
      new == [f \in (DOMAIN old \ {"admin"})
                      \cup (IF admin = {} THEN {} ELSE {"admin"}) |->
                IF f = "admin" THEN CHOOSE a \in admin : TRUE ELSE old[f]]
  IN /\ k \in DOMAIN store
     /\ new # old
     /\ store' = [store EXCEPT ![k] = new]
     /\ Cardinality(Edited(store')) <= MaxEdits
     /\ resp' = Written(old)
     /\ UNCHANGED <<now, issued>>

\* the seeding script runs again, preload_memcache.py:47-48
Preload ==
  /\ store # seeded_store
  /\ store' = [k \in DOMAIN store \cup DOMAIN seeded_store |->
                 IF k \in DOMAIN seeded_store THEN seeded_store[k]
                 ELSE store[k]]
  /\ resp' = NoRequest
  /\ UNCHANGED <<now, issued>>

Next ==
  \/ \E q \in LoginRequests : Login(q[1], q[2], q[3])
  \/ \E q \in ProtectedRequests : Protected(q[1], q[2])
  \/ \E q \in AdminRequests : ProtectedAdmin(q[1], q[2])
  \/ TickFine
  \/ TickMinute
  \/ \E u \in DOMAIN fake_users_db : Evict(u)
  \/ \E u \in DOMAIN fake_users_db, a \in {{}, {TRUE}, {FALSE}} :
       WriteAdmin(u, a)
  \/ Preload

Spec == Init /\ [][Next]_vars

----------------------------------------------------------------------------
(* The calls a handler makes, in the order it makes them.                  *)

\* login, main.py:156-163: "not user or not verify_password(...)" does not
\* evaluate its right operand when the lookup returned nothing
login_calls(form, avail, st) ==
  LET user == get_user(form.username, avail, st)
      stored == dict_get(user, "hashed_password")
      hashed == IF stored = {} THEN EmptyHash ELSE CHOOSE h \in stored : TRUE
  IN IF user = None
     THEN <<"get_user">>
     ELSE IF hashed.scheme # "bcrypt" \/ ~verify_password(form.password, hashed)
     THEN <<"get_user", "verify_password">>
     ELSE <<"get_user", "verify_password", "create_access_token">>

\* get_current_user, main.py:119-130: jwt.decode raises before the payload
\* is read, and the missing sub raises before the lookup
get_current_user_calls(token, avail, st, clk) ==
  LET decoded == jwt_decode(token, SECRET_KEY, {ALGORITHM}, clk)
      username == dict_get(decoded.payload, "sub")
  IN IF decoded.err # ""
     THEN <<"jwt.decode">>
     ELSE IF username = {} \/ username = {""}
     THEN <<"jwt.decode", "payload.get">>
     ELSE <<"jwt.decode", "payload.get", "get_user">>

\* the elements of a sequence
Range(s) == {s[i] : i \in DOMAIN s}

----------------------------------------------------------------------------
(* Direct calls of the functions of main.py, with the arguments their      *)
(* signatures allow: create_access_token with any claims and any duration, *)
(* get_current_user with the tokens so made, login against records that an *)
(* external writer has disabled or stripped of their hash.  In this        *)
(* specification issued holds the one token its caller has kept, with the  *)
(* arguments and the instant of the call that made it, and resp the last   *)
(* call with its result and the calls it made.                             *)

\* the clock of these calls runs over this many whole seconds
MaxSeconds == 1

\* the claims handed to create_access_token: a stored user, a user the store
\* does not hold, an empty sub, no sub, and claims that already carry an exp
TokenData ==
  {[sub |-> "john"], [sub |-> "mallory"], [sub |-> ""], <<>>,
   [sub |-> "john", exp |-> 0]}

\* the durations handed to create_access_token: none, zero, less than a
\* second, a second
Durations == {{}, {0}, {1}, {TicksPerSecond}}

\* a token of a direct call, and the same token with its signature changed
CallTokens ==
  Circulating \cup {[t EXCEPT !.mac.key = "changed-bytes"] : t \in Circulating}

NoCall ==
  [op |-> "none", form |-> None, token |-> None, data |-> None, delta |-> {},
   status |-> 0, detail |-> "", user |-> None, access_token |-> None,
   calls |-> <<>>]

InitCalls ==
  /\ now = 0
  /\ store = seeded_store
  /\ issued = {}
  /\ resp = NoCall

\* create_access_token(data, expires_delta), main.py:57-73; the caller keeps
\* the token or lets it go
CallCreate(data, expires_delta, keep) ==
  LET t == create_access_token(data, expires_delta, now)
      entry == [token |-> t, data |-> data, delta |-> expires_delta,
                at |-> now]
  IN /\ issued' = IF keep THEN {entry} ELSE issued
     /\ resp' = [NoCall EXCEPT !.op = "create_access_token", !.data = data,
                               !.delta = expires_delta, !.status = 200,
                               !.access_token = t]
     /\ UNCHANGED <<now, store>>

\* login(form), main.py:140-164
CallLogin(username, password) ==
  LET form == [username |-> username, password |-> password]
      r == login(form, TRUE, store, now)
  IN /\ resp' = [NoCall EXCEPT !.op = "login", !.form = form,
                               !.status = r.status, !.detail = r.detail,
                               !.access_token = r.access_token,
                               !.calls = login_calls(form, TRUE, store)]
     /\ UNCHANGED <<now, store, issued>>

\* get_current_user(credentials), main.py:102-136
CallCurrentUser(token) ==
  LET r == get_current_user(token, TRUE, store, now)
  IN /\ resp' = [NoCall EXCEPT !.op = "get_current_user", !.token = token,
                               !.status = r.status, !.detail = r.detail,
                               !.user = r.user,
                               !.calls = get_current_user_calls(token, TRUE,
                                                                store, now)]
     /\ UNCHANGED <<now, store, issued>>

\* protected_admin_route behind its dependency, main.py:179-195
CallAdmin(token) ==
  LET r == protected_admin_route(token, TRUE, store, now)
  IN /\ resp' = [NoCall EXCEPT !.op = "protected_admin_route",
                               !.token = token,
                               !.status = r.status, !.detail = r.detail,
                               !.user = r.user,
                               !.calls = get_current_user_calls(token, TRUE,
                                                                store, now)]
     /\ UNCHANGED <<now, store, issued>>

\* time passes, by one tick
Tick ==
  /\ now < MaxSeconds * TicksPerSecond
  /\ now' = now + 1
  /\ resp' = NoCall
  /\ UNCHANGED <<store, issued>>

\* an external writer sets the disabled flag of a record
WriteDisabled(username, disabled) ==
  LET k == user_key(username)
  IN /\ k \in DOMAIN store
     /\ "disabled" \in DOMAIN store[k]
     /\ store[k].disabled # disabled
     /\ store' = [store EXCEPT ![k].disabled = disabled]
     /\ Cardinality(Edited(store')) <= MaxEdits
     /\ resp' = NoCall
     /\ UNCHANGED <<now, issued>>

\* an external writer leaves a record without its hashed_password
DropHash(username) ==
  LET k == user_key(username)
      old == store[k]
  IN /\ k \in DOMAIN store
     /\ "hashed_password" \in DOMAIN old
     /\ store' = [store EXCEPT
                    ![k] = [f \in DOMAIN old \ {"hashed_password"} |-> old[f]]]
     /\ Cardinality(Edited(store')) <= MaxEdits
     /\ resp' = NoCall
     /\ UNCHANGED <<now, issued>>

NextCalls ==
  \/ \E d \in TokenData, e \in Durations, k \in BOOLEAN : CallCreate(d, e, k)
  \/ \E u \in Usernames, p \in Passwords : CallLogin(u, p)
  \/ \E t \in CallTokens : CallCurrentUser(t)
  \/ \E t \in Circulating : CallAdmin(t)
  \/ Tick
  \/ \E u \in {"john"}, d \in BOOLEAN : WriteDisabled(u, d)
  \/ \E u \in {"john"} : DropHash(u)

SpecCalls == InitCalls /\ [][NextCalls]_vars

----------------------------------------------------------------------------
(* Vocabulary of the properties.  While resp holds a request, the clock    *)
(* and the store are the ones its handler read.                            *)

Reads == {"protected", "protected2"}

\* well formed, under the configured algorithm, signed with the server's key
CorrectlySigned(t) ==
  /\ t.segs = 3
  /\ t.header.alg = ALGORITHM
  /\ t.mac = hmac_sha256(SECRET_KEY, t.header, t.payload)

\* the instant of the exp claim, in ticks
ExpTicks(t) == t.payload.exp * TicksPerSecond

TTL == timedelta_minutes(ACCESS_TOKEN_EXPIRE_MINUTES)

\* the instants the clock of the model takes, and those a TTL later
Clocks ==
  {timedelta_minutes(m) + f :
     m \in 0..(MaxMinutes + ACCESS_TOKEN_EXPIRE_MINUTES), f \in 0..MaxFineTicks}

EmptyStore == [k \in {} |-> None]

TokenExpired == HTTPException(401, "Token expired")

\* the response of a route to a request, without the request
RouteResult(op, token, avail, st, clk) ==
  IF op = "protected2"
  THEN protected_admin_route(token, avail, st, clk)
  ELSE protected_route(token, avail, st, clk)

\* the tokens in circulation that the server accepts at clock clk
ValidAt(clk) ==
  {t \in Circulating : CorrectlySigned(t) /\ clk < ExpTicks(t)}

\* the altered forms of the tokens that are valid at clock clk
AlteredAt(clk) ==
  UNION {Mutations(t) \cup Truncations(t) : t \in ValidAt(clk)}

\* the token differs from t in nothing but the unused bits of the last
\* character of its signature
SameBytes(token, t) == [token EXCEPT !.canonical = t.canonical] = t

\* the store record of the token's subject
RecordOf(t) == store[user_key(t.payload.sub)]

----------------------------------------------------------------------------
(* wait_for_memcached, preload_memcache.py:33-43, step by step.  The store *)
(* is the memcached the seeding script waits for, empty before the seeding *)
(* but for the health key; resp is the frame of the call: its arguments,   *)
(* the position pc, the iterations started (i), the attempts that failed,  *)
(* the requests sent to the store (contacts), what the last mc.get gave    *)
(* and how the call ended.  Each request finds the server answering, or    *)
(* not answering (python-memcached then returns 0 from set and None from   *)
(* get), or raises.                                                        *)

\* the loop is tried with up to this many attempts
MaxAttempts == 3

HealthKey == <<"_health">>

\* attempts, an int; below zero range() is empty
AttemptCounts == -1..MaxAttempts

\* delay, in seconds; time.sleep raises ValueError below zero
Delays == {-1, 0, 1}

Outcomes == {"answers", "dead", "raises"}

InitWait ==
  /\ now = 0
  /\ store \in {EmptyStore, [k \in {HealthKey} |-> "ok"]}
  /\ issued = {}
  /\ \E a \in AttemptCounts, d \in Delays :
       resp = [op |-> "wait_for_memcached", pc |-> "for", attempts |-> a,
               delay |-> d, i |-> 0, failed |-> 0, contacts |-> 0,
               got |-> "", result |-> ""]

\* variant: one iteration too many
WaitFor_inclusive ==
  /\ resp.pc = "for"
  /\ resp' = IF resp.i <= resp.attempts
             THEN [resp EXCEPT !.pc = "set", !.i = resp.i + 1]
             ELSE [resp EXCEPT !.pc = "done", !.result = "RuntimeError"]
  /\ UNCHANGED <<now, store, issued>>

\* for _ in range(attempts): ... raise RuntimeError, lines 35 and 43
WaitFor ==
  /\ resp.pc = "for"
  /\ resp' = IF resp.i < resp.attempts
             THEN [resp EXCEPT !.pc = "set", !.i = resp.i + 1]
             ELSE [resp EXCEPT !.pc = "done", !.result = "RuntimeError"]
  /\ UNCHANGED <<now, store, issued>>

\* mc.set("_health", "ok", time=5), line 37; its result is not looked at
WaitSet(outcome) ==
  /\ resp.pc = "set"
  /\ store' = IF outcome = "answers"
              THEN [k \in {HealthKey} |-> "ok"]
              ELSE store
  /\ resp' = IF outcome = "raises"
             THEN [resp EXCEPT !.pc = "sleep", !.contacts = resp.contacts + 1,
                               !.failed = resp.failed + 1, !.got = "raised"]
             ELSE [resp EXCEPT !.pc = "get", !.contacts = resp.contacts + 1]
  /\ UNCHANGED <<now, issued>>

\* if mc.get("_health") == "ok": return mc, lines 38-41
WaitGet(outcome) ==
  LET value == IF outcome = "raises" THEN "raised"
               ELSE IF outcome = "answers" /\ HealthKey \in DOMAIN store
               THEN store[HealthKey]
               ELSE "None"
  IN /\ resp.pc = "get"
     /\ resp' = IF value = "ok"
                THEN [resp EXCEPT !.pc = "done", !.result = "mc",
                                  !.contacts = resp.contacts + 1,
                                  !.got = value]
                ELSE [resp EXCEPT !.pc = "sleep",
                                  !.contacts = resp.contacts + 1,
                                  !.failed = resp.failed + 1, !.got = value]
     /\ UNCHANGED <<now, store, issued>>

\* time.sleep(delay), line 42, outside the try block
WaitSleep ==
  /\ resp.pc = "sleep"
  /\ IF resp.delay < 0
     THEN /\ resp' = [resp EXCEPT !.pc = "done", !.result = "ValueError"]
          /\ now' = now
     ELSE /\ resp' = [resp EXCEPT !.pc = "for"]
          /\ now' = now + resp.delay * TicksPerSecond
  /\ UNCHANGED <<store, issued>>

\* the health key leaves the store: its 5 seconds are over, or the server
\* was restarted
HealthExpires ==
  /\ resp.pc # "done"
  /\ HealthKey \in DOMAIN store
  /\ store' = EmptyStore
  /\ UNCHANGED <<now, issued, resp>>

\* the steps of the script
WaitStep ==
  \/ WaitFor
  \/ \E o \in Outcomes : WaitSet(o)
  \/ \E o \in Outcomes : WaitGet(o)
  \/ WaitSleep

NextWait == WaitStep \/ HealthExpires

\* the interpreter runs the script for as long as it has a step to take
SpecWait == InitWait /\ [][NextWait]_vars /\ WF_vars(WaitStep)

----------------------------------------------------------------------------
\* C1: a login with a stored user's password issues a token, and
\* get_current_user with that token at the same instant, the store unchanged,
\* returns that user's record, whose username is the token's sub.
C1_LoginRoundTrip ==
  (/\ resp.op = "login" /\ resp.avail
   /\ user_key(resp.form.username) \in DOMAIN store
   /\ store[user_key(resp.form.username)].hashed_password
        = hash_pw(resp.form.password))
  => /\ resp.status = 200
     /\ LET r == get_current_user(resp.access_token, TRUE, store, now)
        IN /\ r.status = 200
           /\ r.user = store[user_key(resp.form.username)]
           /\ r.user.username = resp.access_token.payload.sub

\* a token of a login, presented in the second of that login, resolved to
\* the record of the user who logged in
C1_Witness ==
  /\ resp.op = "protected" /\ resp.status = 200
  /\ \E e \in issued :
       /\ e.token = resp.token
       /\ resp.user = store[user_key(e.form.username)]
       /\ resp.user.username = resp.token.payload.sub
       /\ ExpTicks(resp.token) = (now \div TicksPerSecond) * TicksPerSecond + TTL

\* C2: a token issued with the default TTL is rejected as expired, and not
\* as invalid, at every instant from its issue plus the TTL on, whatever the
\* store holds and whether or not it answers.
C2_ExpiredAfterTTL ==
  (resp.op = "login" /\ resp.status = 200)
  => \A c \in Clocks :
       c >= now + TTL
       => \A st \in {store, seeded_store, EmptyStore}, a \in BOOLEAN :
            get_current_user(resp.access_token, a, st, c) = TokenExpired

\* a token in circulation was presented once its TTL was over, and was
\* answered with "Token expired"
C2_Witness ==
  /\ resp.op \in Reads /\ resp.token \in Circulating
  /\ now >= ExpTicks(resp.token)
  /\ resp.status = 401 /\ resp.detail = "Token expired"

\* C3: a correctly signed token is rejected as expired exactly when the
\* clock is at or past its exp, the instant exp itself included.
C3_ExpiryBoundary ==
  (resp.op \in Reads /\ CorrectlySigned(resp.token))
  => /\ now >= ExpTicks(resp.token)
        => resp.status = 401 /\ resp.detail = "Token expired"
     /\ now < ExpTicks(resp.token)
        => resp.detail # "Token expired"

\* a correctly signed token was presented at the very instant of its exp and
\* was rejected as expired
C3_Witness ==
  /\ resp.op \in Reads /\ CorrectlySigned(resp.token)
  /\ now = ExpTicks(resp.token)
  /\ resp.detail = "Token expired"

\* C4, as stated: every altered form of a valid token is rejected with
\* "Invalid token", and none resolves to a principal.
C4_AnyAlterationRejected ==
  (resp.op \in Reads /\ resp.avail /\ resp.token \in AlteredAt(now))
  => /\ resp.status = 401 /\ resp.detail = "Invalid token"
     /\ resp.user = None

\* C4, amended: an altered form of a valid token is rejected with "Invalid
\* token" and resolves to no principal, unless the alteration is confined to
\* the unused bits of the last character of the signature; that form decodes
\* to the same bytes and is answered as the unaltered token is.
C4_AlterationOfBytesRejected ==
  (resp.op \in Reads /\ resp.avail)
  => \A t \in ValidAt(now) :
       resp.token \in Mutations(t) \cup Truncations(t)
       => IF SameBytes(resp.token, t)
          THEN LET r == RouteResult(resp.op, t, TRUE, store, now)
               IN /\ resp.status = r.status /\ resp.detail = r.detail
                  /\ resp.user = r.user
          ELSE /\ resp.status = 401 /\ resp.detail = "Invalid token"
               /\ resp.user = None

\* a token with its subject changed to another stored user was presented
\* while the original was valid, and was rejected as invalid
C4_Witness ==
  /\ resp.op \in Reads /\ resp.avail
  /\ \E t \in ValidAt(now) :
       /\ resp.token \in Mutations(t)
       /\ resp.token.payload # t.payload
       /\ "sub" \in DOMAIN resp.token.payload
       /\ user_key(resp.token.payload.sub) \in DOMAIN store
  /\ resp.status = 401 /\ resp.detail = "Invalid token" /\ resp.user = None

\* C5: a token in circulation, correctly signed and not expired, whose
\* subject is no longer in the store is answered with "User not found" and
\* resolves to no record.
C5_RemovedPrincipalNotFound ==
  (/\ resp.op \in Reads /\ resp.token \in ValidAt(now)
   /\ user_key(resp.token.payload.sub) \notin DOMAIN store)
  => /\ resp.status = 404 /\ resp.detail = "User not found"
     /\ resp.user = None

\* the token of a user who logged in and was then removed has been presented
\* before its expiry, the store answering, and no principal was found
C5_Witness ==
  /\ resp.op \in Reads /\ resp.avail /\ resp.token \in ValidAt(now)
  /\ user_key(resp.token.payload.sub) \notin DOMAIN store
  /\ resp.detail = "User not found" /\ resp.user = None

\* C6, as stated: a protected operation, the store answering, answers 401
\* whenever it resolves no principal, 403 only for a resolved principal
\* without the admin flag, and 200 otherwise.
C6_AuthFailuresAre401 ==
  (resp.op \in Reads /\ resp.avail)
  => /\ resp.user = None => resp.status = 401
     /\ resp.status = 403
          => resp.user # None /\ dict_get(resp.user, "admin") # {TRUE}
     /\ resp.status \in {200, 401, 403}

\* C7: for a valid token whose subject is in the store, the admin route
\* answers 200 when the record's admin field is true, and 403 "Admin access
\* required" when it is false or missing; the subject alone decides between
\* two tokens that are otherwise the same.
C7_AdminFlagDecides ==
  (/\ resp.op = "protected2" /\ resp.avail
   /\ resp.token \in ValidAt(now)
   /\ user_key(resp.token.payload.sub) \in DOMAIN store)
  => IF "admin" \in DOMAIN RecordOf(resp.token) /\ RecordOf(resp.token).admin
     THEN resp.status = 200
     ELSE resp.status = 403 /\ resp.detail = "Admin access required"

\* two valid tokens that differ only in their subject are in circulation;
\* the admin route has denied the one whose record has no true admin flag,
\* and the record of the other has it
C7_Witness ==
  /\ resp.op = "protected2" /\ resp.avail /\ resp.status = 403
  /\ resp.token \in ValidAt(now)
  /\ \E t \in ValidAt(now) :
       /\ t.payload.sub # resp.token.payload.sub
       /\ t.payload.exp = resp.token.payload.exp
       /\ user_key(t.payload.sub) \in DOMAIN store
       /\ dict_get(RecordOf(t), "admin") = {TRUE}

\* C8: a login with an unknown username and a login with a known username
\* and a wrong password get the same answer, 401 "Incorrect username or
\* password", and no token is issued.
C8_GenericLoginFailure ==
  [][(resp'.op = "login" /\ resp'.avail /\ resp' # resp
      /\ LET k == user_key(resp'.form.username)
         IN \/ k \notin DOMAIN store'
            \/ store'[k].hashed_password # hash_pw(resp'.form.password))
     => /\ resp'.status = 401
        /\ resp'.detail = "Incorrect username or password"
        /\ resp'.access_token = None
        /\ issued' = issued]_vars

\* a stored user has logged in with a wrong password and was refused, and a
\* login with an unknown username gets the same answer in this state
C8_Witness ==
  /\ resp.op = "login" /\ resp.avail /\ resp.status = 401
  /\ user_key(resp.form.username) \in DOMAIN store
  /\ LET r == login([username |-> "mallory", password |-> resp.form.password],
                    TRUE, store, now)
     IN /\ user_key("mallory") \notin DOMAIN store
        /\ r.status = resp.status /\ r.detail = resp.detail
        /\ r.access_token = resp.access_token

\* C9: when the admin flag of a user is written while a token of that user
\* is in circulation, the admin route used with that token after the write
\* decides on the flag as written, not on the flag of the time of issue.
C9_CurrentFlagDecides ==
  [][(store' # store)
     => \A t \in ValidAt(now') :
          user_key(t.payload.sub) \in DOMAIN store'
          => LET r == protected_admin_route(t, TRUE, store', now')
                 rec == store'[user_key(t.payload.sub)]
             IN /\ r.status = IF dict_get(rec, "admin") = {TRUE}
                              THEN 200 ELSE 403
                /\ r.user = rec]_vars

\* the admin flag of a user was just written to another value while a valid
\* token of that user was in circulation, and the admin route decides for
\* that token on the flag as written
C9_Witness ==
  /\ resp.op = "write"
  /\ \E t \in ValidAt(now) :
       /\ user_key(t.payload.sub) \in DOMAIN store
       /\ resp.user.username = t.payload.sub
       /\ dict_get(resp.user, "admin") # dict_get(RecordOf(t), "admin")
       /\ protected_admin_route(t, TRUE, store, now).status
            = IF dict_get(RecordOf(t), "admin") = {TRUE} THEN 200 ELSE 403

\* C10, as stated: a request whose store lookup finds the store unavailable
\* is answered with a 5xx status.
C10_OutageIs5xx ==
  (/\ ~resp.avail
   /\ \/ resp.op = "login"
      \/ resp.op \in Reads /\ resp.token \in ValidAt(now))
  => resp.status >= 500

----------------------------------------------------------------------------
\* C11, as stated: every login that is refused has called verify_password
\* before the refusal is reported, also when the username is unknown or the
\* record carries no hash.
C11_VerifyAlwaysRuns ==
  (resp.op = "login" /\ resp.status # 200)
  => "verify_password" \in Range(resp.calls)

\* C12: get_current_user checks the signature, then the expiry, then the
\* sub, then looks the principal up, and reports the first check that
\* fails: a token that is forged is answered "Invalid token" also when it is
\* expired, an expired token is answered "Token expired" also when its
\* subject is missing or not in the store, and the store is looked up only
\* when the signature, the expiry and the sub have all passed.
C12_FirstFailedCheckReported ==
  (resp.op \in {"get_current_user", "protected_admin_route"})
  => LET t == resp.token
         signed == CorrectlySigned(t)
         fresh == now < ExpTicks(t)
         named == dict_get(t.payload, "sub") \notin {{}, {""}}
     IN /\ ~signed
           => /\ resp.status = 401 /\ resp.detail = "Invalid token"
              /\ resp.calls = <<"jwt.decode">>
        /\ (signed /\ ~fresh)
           => /\ resp.status = 401 /\ resp.detail = "Token expired"
              /\ resp.calls = <<"jwt.decode">>
        /\ (signed /\ fresh /\ ~named)
           => /\ resp.status = 401 /\ resp.detail = "Invalid token payload"
              /\ resp.calls = <<"jwt.decode", "payload.get">>
        /\ (signed /\ fresh /\ named)
           => /\ resp.calls = <<"jwt.decode", "payload.get", "get_user">>
              /\ resp.detail \notin
                   {"Invalid token", "Token expired", "Invalid token payload"}
        /\ "get_user" \in Range(resp.calls) <=> (signed /\ fresh /\ named)

\* a token whose signature was changed was presented after its exp and was
\* answered "Invalid token"; the token it was made from names a subject the
\* store does not hold and is answered "Token expired"; neither call looked
\* the store up
C12_Witness ==
  /\ resp.op = "get_current_user"
  /\ ~CorrectlySigned(resp.token) /\ now >= ExpTicks(resp.token)
  /\ resp.detail = "Invalid token" /\ resp.calls = <<"jwt.decode">>
  /\ \E e \in issued :
       /\ resp.token = [e.token EXCEPT !.mac.key = "changed-bytes"]
       /\ "sub" \in DOMAIN e.token.payload
       /\ e.token.payload.sub # ""
       /\ user_key(e.token.payload.sub) \notin DOMAIN store
       /\ get_current_user(e.token, TRUE, store, now) = TokenExpired
       /\ get_current_user_calls(e.token, TRUE, store, now) = <<"jwt.decode">>

\* C13: a correctly signed token that is not expired and whose sub is
\* missing or empty is answered 401 "Invalid token payload", not "Invalid
\* token" and not "Token expired", and resolves to no principal.
C13_MissingSubIsMalformed ==
  (/\ resp.op \in {"get_current_user", "protected_admin_route"}
   /\ CorrectlySigned(resp.token) /\ now < ExpTicks(resp.token)
   /\ dict_get(resp.token.payload, "sub") \in {{}, {""}})
  => /\ resp.status = 401 /\ resp.detail = "Invalid token payload"
     /\ resp.user = None

\* a token made by create_access_token from claims with an empty sub was
\* presented before its exp and was answered "Invalid token payload"
C13_Witness ==
  /\ resp.op = "get_current_user"
  /\ \E e \in issued : e.token = resp.token /\ e.data = [sub |-> ""]
  /\ CorrectlySigned(resp.token) /\ now < ExpTicks(resp.token)
  /\ resp.status = 401 /\ resp.detail = "Invalid token payload"

\* the store st with the disabled flag of the user's record, if it has one,
\* set to d
WithDisabled(st, username, d) ==
  IF user_key(username) \in DOMAIN st
     /\ "disabled" \in DOMAIN st[user_key(username)]
  THEN [st EXCEPT ![user_key(username)].disabled = d]
  ELSE st

\* a record without its disabled flag
LessDisabled(user) == [f \in DOMAIN user \ {"disabled"} |-> user[f]]

\* C14: the answers of login, get_current_user and the admin check are the
\* same on two stores that differ only in the disabled flag of a user (the
\* record returned differs in that flag alone), and a user whose record is
\* disabled logs in, is authenticated and is authorized as admin.
C14_DisabledNotConsulted ==
  /\ resp.op = "login"
     => \A u \in DOMAIN fake_users_db, d \in BOOLEAN :
          LET r == login(resp.form, TRUE, WithDisabled(store, u, d), now)
          IN /\ r.status = resp.status /\ r.detail = resp.detail
             /\ r.access_token = resp.access_token
  /\ resp.op \in {"get_current_user", "protected_admin_route"}
     => \A u \in DOMAIN fake_users_db, d \in BOOLEAN :
          LET st == WithDisabled(store, u, d)
              r == IF resp.op = "get_current_user"
                   THEN get_current_user(resp.token, TRUE, st, now)
                   ELSE protected_admin_route(resp.token, TRUE, st, now)
          IN /\ r.status = resp.status /\ r.detail = resp.detail
             /\ LessDisabled(r.user) = LessDisabled(resp.user)
  /\ (/\ resp.op = "login"
      /\ user_key(resp.form.username) \in DOMAIN store
      /\ dict_get(store[user_key(resp.form.username)], "disabled") = {TRUE}
      /\ dict_get(store[user_key(resp.form.username)], "hashed_password")
           = {hash_pw(resp.form.password)})
     => resp.status = 200
  /\ (/\ resp.op \in {"get_current_user", "protected_admin_route"}
      /\ CorrectlySigned(resp.token) /\ now < ExpTicks(resp.token)
      /\ dict_get(resp.token.payload, "sub") \notin {{}, {""}}
      /\ user_key(resp.token.payload.sub) \in DOMAIN store
      /\ dict_get(RecordOf(resp.token), "disabled") = {TRUE}
      /\ dict_get(RecordOf(resp.token), "admin") = {TRUE})
     => resp.status = 200 /\ resp.user = RecordOf(resp.token)

\* the admin check has let a user through whose record is disabled, and a
\* login with that user's password succeeds in this state
C14_Witness ==
  /\ resp.op = "protected_admin_route" /\ resp.status = 200
  /\ resp.user.disabled
  /\ login([username |-> resp.user.username, password |-> "johnpword"],
           TRUE, store, now).status = 200

\* C15: a step of login or of a protected route, answered with success or
\* with a failure, leaves the store as it found it, so the store is at all
\* times what the seeding and the external writers wrote.
C15_EngineLeavesStore ==
  [][resp'.op \in {"login"} \cup Reads => store' = store]_vars

\* a token was issued, a protected route has since refused a request, and
\* the store still holds the record an external writer changed
C15_Witness ==
  /\ resp.op \in Reads /\ resp.status # 200
  /\ issued # {}
  /\ Edited(store) # {}
  /\ \E k \in Edited(store) : k \in DOMAIN store

\* the store with nothing in it but the record of the token's subject
OnlyRecord(st, t) ==
  [k \in {j \in DOMAIN st : /\ "sub" \in DOMAIN t.payload
                            /\ j = user_key(t.payload.sub)} |-> st[k]]

\* C16: whatever logins and requests of other callers came before, the
\* answer to a token is the answer its own bytes, the clock and the record
\* of its subject give: a token in circulation that is correctly signed and
\* not expired resolves to the record of its subject, whichever other tokens
\* were issued before or after it.
C16_CallsIndependent ==
  (resp.op \in Reads)
  => /\ LET r == RouteResult(resp.op, resp.token, resp.avail,
                             OnlyRecord(store, resp.token), now)
        IN /\ resp.status = r.status /\ resp.detail = r.detail
           /\ resp.user = r.user
     /\ (/\ resp.avail /\ resp.token \in ValidAt(now)
         /\ user_key(resp.token.payload.sub) \in DOMAIN store)
        => /\ resp.user = RecordOf(resp.token)
           /\ resp.status \in {200, 403}
           /\ resp.op = "protected" => resp.status = 200

\* two tokens of one user are valid at once, and the one issued first has
\* been accepted after the other was issued
C16_Witness ==
  /\ resp.op = "protected" /\ resp.status = 200
  /\ resp.token \in ValidAt(now)
  /\ \E t \in ValidAt(now) :
       /\ t.payload.sub = resp.token.payload.sub
       /\ t.payload.exp > resp.token.payload.exp

\* the whole second an instant falls in
SecondOf(clk) == clk \div TicksPerSecond

\* the duration, if one is given, is a whole number of seconds
WholeSeconds(expires_delta) == \A d \in expires_delta : d % TicksPerSecond = 0

\* C17, as stated: two calls of create_access_token for the same username,
\* with the same duration, at different instants give different tokens.
C17_DifferentInstantsDifferentTokens ==
  (resp.op = "create_access_token")
  => \A e \in issued :
       (/\ "sub" \in DOMAIN resp.data /\ e.data = resp.data
        /\ e.delta = resp.delta /\ e.at # now)
       => e.token # resp.access_token

\* C17, amended: two calls of create_access_token with the same claims give
\* different tokens exactly when their exp claims differ.  With the same
\* duration, a whole number of seconds, calls in different seconds of the
\* clock give different tokens and calls within one second the same token.
C17_DifferentSecondsDifferentTokens ==
  (resp.op = "create_access_token")
  => \A e \in issued :
       (e.data = resp.data)
       => /\ e.token = resp.access_token
             <=> e.token.payload.exp = resp.access_token.payload.exp
          /\ (/\ e.delta = resp.delta /\ WholeSeconds(e.delta)
              /\ SecondOf(e.at) # SecondOf(now))
             => e.token # resp.access_token
          /\ (/\ e.delta = resp.delta /\ WholeSeconds(e.delta)
              /\ SecondOf(e.at) = SecondOf(now))
             => e.token = resp.access_token

\* a token for john with the default duration was kept, and a second call
\* with the same arguments in a later second has made a different token
C17_Witness ==
  /\ resp.op = "create_access_token"
  /\ resp.data = [sub |-> "john"] /\ resp.delta = {}
  /\ \E e \in issued :
       /\ e.data = resp.data /\ e.delta = resp.delta
       /\ SecondOf(e.at) < SecondOf(now)
       /\ e.token # resp.access_token
       /\ e.token.payload.sub = resp.access_token.payload.sub

\* C18, as stated: the exp of the token is the second of the call's instant
\* plus the duration for every duration that is passed, a zero duration
\* included, and of the instant plus the configured TTL only when none is
\* passed; an exp among the claims is replaced and the other claims are kept.
C18_ExpIsNowPlusDelta ==
  (resp.op = "create_access_token")
  => LET payload == resp.access_token.payload
     IN /\ \A d \in resp.delta : payload.exp = SecondOf(now + d)
        /\ resp.delta = {} => payload.exp = SecondOf(now + TTL)
        /\ DOMAIN payload = DOMAIN resp.data \cup {"exp"}
        /\ \A k \in DOMAIN resp.data \ {"exp"} : payload[k] = resp.data[k]

\* C19: a login that issues a token has read a record for the submitted
\* username from the store and verify_password has accepted the submitted
\* password against that record's hash; the sub of the token is the username
\* field of that record.  Every token in circulation so names a user whose
\* password was given at its login.
C19_IssuedAfterVerification ==
  /\ (resp.op = "login" /\ resp.status = 200)
     => /\ resp.avail
        /\ user_key(resp.form.username) \in DOMAIN store
        /\ LET user == store[user_key(resp.form.username)]
           IN /\ "hashed_password" \in DOMAIN user
              /\ verify_password(resp.form.password, user.hashed_password)
              /\ resp.access_token.payload.sub = user.username
        /\ resp.access_token \in Circulating
  /\ (resp.op = "login" /\ resp.status # 200) => resp.access_token = None
  /\ \A e \in issued :
       /\ e.token.payload.sub = e.form.username
       /\ e.form.username \in DOMAIN fake_users_db
       /\ verify_password(e.form.password,
                          fake_users_db[e.form.username].hashed_password)

\* a login has issued a token for a stored user, and the same login with
\* the other user's password is refused in this state
C19_Witness ==
  /\ resp.op = "login" /\ resp.status = 200
  /\ resp.access_token \in Circulating
  /\ resp.access_token.payload.sub
       = store[user_key(resp.form.username)].username
  /\ \E p \in Passwords \ {resp.form.password} :
       login([username |-> resp.form.username, password |-> p],
             TRUE, store, now).status = 401

\* how a call that has ended has ended: with the client, after a get that
\* gave "ok" in the last attempt started, all attempts before it failed; or
\* with RuntimeError, after as many failed attempts as attempts says, and
\* without a request to the store when attempts is 0
EndedAsStated ==
  \/ /\ resp.result = "mc" /\ resp.got = "ok"
     /\ resp.i = resp.failed + 1
  \/ /\ resp.result = "RuntimeError" /\ resp.failed = resp.attempts
     /\ resp.attempts = 0 => resp.contacts = 0

====
